---- MODULE Spec2Model ----
(***************************************************************************)
(* Step SDK: the step registry (src/src/registry/step-registry.ts), the    *)
(* output protocol (src/src/output/step-output.ts), the step contract      *)
(* (src/src/base/*.ts) and the @Step decorator (src/src/decorators/step.ts).*)
(*                                                                         *)
(* One behaviour of Spec is one process invocation: StepRegistry.run(steps) *)
(* with one --input payload.  The registered step classes and the previous *)
(* content of the output file are fixed by Init.                           *)
(* SpecLibrary is the SDK used as a library, the way its unit tests use    *)
(* it: output helpers, StepOutputSchema and the decorated classes' getData.*)
(*                                                                         *)
(* JavaScript `undefined` is modelled as the empty sequence None, a        *)
(* defined value x as the one-element sequence Some(x).  Strings that the  *)
(* code builds by interpolation are sequences of string fragments.         *)
(***************************************************************************)
EXTENDS Integers, Sequences, FiniteSets, TLC

VARIABLES
    stepClasses,      \* the steps argument of StepRegistry.run
    file,             \* content of the output file (None: no file)
    pc,               \* position of the process
    input,            \* the --input argument (None before the process starts)
    steps,            \* StepRegistry.steps, the Map in insertion order
    parsed,           \* result of StepRegistryInputSchema.parse
    StepCls,          \* executeStep: the class found by this.steps.get(type)
    metadata,         \* executeStep: instance.getMetadata()
    loggerInjected,   \* executeStep: instance._setLogger was called
    logger,           \* executeStep: the logger the step instance holds
    parseResult,      \* executeStep: metadata.schema.safeParse(params)
    calls,            \* lifecycle methods invoked, with their arguments
    output,           \* executeStep: the value routeExecution returned
    thrown,           \* the error raised, if one was
    caughtBy,         \* which catch block handled it ("none" if uncaught)
    writes,           \* number of times this invocation wrote the output file
    executionId,      \* StepRegistry.executionId (None before the process starts)
    outputPath,       \* StepRegistry.outputPath (None before the process starts)
    logDir,           \* StepRegistry.logDir (None before the process starts)
    invocation,       \* host: the number of the current invocation
    history,          \* host: the jobs of the invocations that have ended
    synthesized,      \* host: the first SYNTHESIZE-METADATA result it read
    observed,         \* host: the statuses read since it last started a request
    firstRouted,      \* host: the first routed request and the call it led to
    built,            \* library use: the output value built, and by what
    validation,       \* library use: StepOutputSchema.safeParse(built).success
    theInstance,      \* library use: the decorated step instance created
    theData           \* library use: the results of its getData() so far

\* the variables of the host that invokes the process again and again
hostVars == <<invocation, history, synthesized, observed, firstRouted>>

\* the variables of the SDK used as a library, outside StepRegistry.run
libVars == <<built, validation, theInstance, theData>>

\* the variables of one invocation of StepRegistry.run
runVars == <<stepClasses, file, pc, input, steps, parsed, StepCls, metadata,
             loggerInjected, logger, parseResult, calls, output, thrown,
             caughtBy, writes, executionId, outputPath, logDir>>

\* the logger of the step instance, and whether the registry set it
loggerVars == <<loggerInjected, logger>>

\* what StepRegistry.run reads from the command line besides --input
flagVars == <<executionId, outputPath, logDir>>

vars == <<runVars, hostVars, libVars>>

----------------------------------------------------------------------------
(* Bounds *)

MaxSteps == 2         \* length of the steps argument of StepRegistry.run

----------------------------------------------------------------------------
(* undefined / defined values *)

None == <<>>
Some(x) == <<x>>
IsDefined(o) == o # None
ValueOf(o) == o[1]

\* JavaScript truthiness of an optional boolean (metadata.requiresApproval)
Truthy(o) == IsDefined(o) /\ ValueOf(o) = TRUE

\* an object as a function from keys to values; {} is EmptyObject
EmptyObject == [k \in {} |-> ""]
HasKey(obj, k) == k \in DOMAIN obj

----------------------------------------------------------------------------
(* Output protocol: src/src/output/step-output.ts *)

success(data) == [status |-> "SUCCESS", data |-> data]

failed(error, errorCode) ==
    [status |-> "FAILED", error |-> error, errorCode |-> errorCode]

approvalRequired(request) ==
    [status |-> "APPROVAL_REQUIRED", approvalRequest |-> request]

triggered(pollingState) ==
    [status |-> "TRIGGERED", pollingState |-> pollingState]

pollAgain(pollingState, retryAfterMs) ==
    [status |-> "POLL_AGAIN", pollingState |-> pollingState,
     retryAfterMs |-> retryAfterMs]

\* a primitive string where an object may stand, boxed with its type
JsString(s) == [typeof |-> "string", value |-> s]

\* typeof v: a boxed primitive names its type, any other value is an object
typeof(v) == IF "typeof" \in DOMAIN v THEN v["typeof"] ELSE "object"

\* z.record(z.string(), z.any()) accepts v
isRecord(v) == typeof(v) = "object"

\* a field declared .optional() is absent, undefined, or holds a value
OptionalField(o, f) == IF HasKey(o, f) THEN o[f] ELSE None

\* StepOutputSchema.safeParse(o).success: the discriminated union on status
\* of the five output schemas
StepOutputSchemaAccepts(o) ==
    /\ HasKey(o, "status")
    /\ CASE o.status = "SUCCESS" ->
               IsDefined(OptionalField(o, "data"))
                   => isRecord(ValueOf(OptionalField(o, "data")))
         [] o.status = "FAILED" -> HasKey(o, "error")
         [] o.status = "APPROVAL_REQUIRED" ->
               HasKey(o, "approvalRequest") /\ isRecord(o.approvalRequest)
         [] o.status = "TRIGGERED" ->
               HasKey(o, "pollingState") /\ isRecord(o.pollingState)
         [] o.status = "POLL_AGAIN" ->
               HasKey(o, "pollingState") /\ isRecord(o.pollingState)
         [] OTHER -> FALSE

\* a value that is no StepOutput
InvalidOutput == [status |-> "INVALID", foo |-> "bar"]

\* a BigInt, which JSON has no representation of
JsBigInt(n) == [typeof |-> "bigint", value |-> n]

\* a SUCCESS output whose data holds, next to the keys of data, a BigInt
\* under the key count
UnserializableOutput(data) ==
    success(Some([k \in DOMAIN data \cup {"count"} |->
                    IF k = "count" THEN JsBigInt(10) ELSE data[k]]))

\* the data of an output holds a BigInt
HoldsBigInt(o) ==
    /\ HasKey(o, "data")
    /\ IsDefined(o.data)
    /\ HasKey(ValueOf(o.data), "count")
    /\ typeof(ValueOf(o.data)["count"]) = "bigint"

\* variant of JSONstringifyThrows: a serializer that writes every value
JSONstringifyWritesAll(o) == FALSE

\* JSON.stringify(output) throws a TypeError
JSONstringifyThrows(o) == HoldsBigInt(o)

\* the fields of an output, and the key of a polling state, that may hold
\* undefined
OptionalFields == {"data", "errorCode", "retryAfterMs", "handle"}

\* the keys of an object that JSON.stringify writes: a key holding undefined
\* is left out
SerializedKeys(o) == {f \in DOMAIN o : f \notin OptionalFields \/ IsDefined(o[f])}

\* JSON.stringify of an object one level deep
stringifyObject(o) == [k \in SerializedKeys(o) |-> o[k]]

\* JSON.stringify(output): a field holding undefined is left out, of the
\* output and of the polling state nested in it
JSONstringify(o) ==
    [k \in SerializedKeys(o) |->
        IF k = "pollingState" THEN stringifyObject(o[k]) ELSE o[k]]

----------------------------------------------------------------------------
(* Parameter schemas and params *)

\* z.object({ value: z.string() }): the required string keys, in order
TestSchema == <<"value">>

\* params objects a host may send
ParamsObjects ==
    { EmptyObject,
      [k \in {"value"} |-> "a"],
      [k \in {"value", "extra"} |-> IF k = "value" THEN "a" ELSE "x"] }

\* the keys of a z.object schema that obj lacks, in schema order
MissingKeys(schema, obj) ==
    LET Missing(k) == ~HasKey(obj, k) IN SelectSeq(schema, Missing)

\* ZodError.message: one entry per issue, naming the path that is violated
ZodErrorMessage(issues) ==
    [i \in 1..(2 * Len(issues)) |->
        IF i % 2 = 1 THEN "Invalid input: expected string, received undefined at "
                     ELSE issues[i \div 2]]

\* schema.safeParse(params) of a z.object of strings: unknown keys are
\* stripped from data, a missing key is an issue
safeParse(schema, params) ==
    LET issues == MissingKeys(schema, params)
        keys   == {schema[i] : i \in 1..Len(schema)}
    IN IF issues = <<>>
       THEN [success |-> TRUE,  data |-> Some([k \in keys |-> params[k]]),
             error |-> <<>>]
       ELSE [success |-> FALSE, data |-> None,
             error |-> ZodErrorMessage(issues)]

----------------------------------------------------------------------------
(* Step classes: what a user passes to StepRegistry.run *)

\* A step class.  type/schema are the @Step config; kind is the base class
\* it extends (SimpleStep has run, PollingStep has trigger and poll);
\* overridesPrepare tells whether it defines its own prepare;
\* metadataImpl tells where its getMetadata comes from:
\*   "own"  - written to the StepClass contract the registry reads
\*            (type, schema, stepKind, requiresApproval)
\*   "Step" - added by the @Step decorator of src/src/decorators/step.ts
\*   "base" - inherited from BaseStep (the class is not decorated)
\* mayThrow: the constructor uses an injected dependency and may throw.
StepClassRecord(name, type, kind, overridesPrepare, metadataImpl, mayThrow) ==
    [name |-> name, type |-> type, schema |-> TestSchema, kind |-> kind,
     overridesPrepare |-> overridesPrepare, metadataImpl |-> metadataImpl,
     mayThrow |-> mayThrow]

SimpleTestStep ==
    StepClassRecord("SimpleTestStep", "simple-test", "simple", FALSE, "own", FALSE)
ApprovalTestStep ==
    StepClassRecord("ApprovalTestStep", "approval-test", "simple", TRUE, "own", FALSE)
PollingTestStep ==
    StepClassRecord("PollingTestStep", "polling-test", "polling", FALSE, "own", FALSE)
ApprovalPollingTestStep ==
    StepClassRecord("ApprovalPollingTestStep", "approval-polling-test", "polling",
                    TRUE, "own", FALSE)
DeployStep ==
    StepClassRecord("DeployStep", "deploy", "simple", FALSE, "own", TRUE)
EchoStep ==
    StepClassRecord("EchoStep", "echo", "simple", FALSE, "Step", FALSE)
ApprovalEchoStep ==
    StepClassRecord("ApprovalEchoStep", "approval-echo", "simple", TRUE, "Step", FALSE)
JobStep ==
    StepClassRecord("JobStep", "job", "polling", FALSE, "Step", FALSE)
ApprovalPollingStep ==
    StepClassRecord("ApprovalPollingStep", "approval-polling", "polling", TRUE,
                    "Step", FALSE)
\* DeployStep of src/tst/step-registry.test.ts, the example polling step
\* (DeployStep above is the Simple step of the SimpleStep documentation)
TestDeployStep ==
    StepClassRecord("TestDeployStep", "deploy", "polling", FALSE, "Step", FALSE)
UnDecoratedStep ==
    StepClassRecord("UnDecoratedStep", "undecorated", "simple", FALSE, "base", FALSE)

\* the classes passed to StepRegistry.run
StepClasses ==
    { SimpleTestStep, ApprovalTestStep, PollingTestStep, ApprovalPollingTestStep,
      DeployStep, EchoStep, ApprovalEchoStep, UnDecoratedStep }

\* the classes the @Step decorator of src/src/decorators/step.ts enhances
DecoratedClasses ==
    { EchoStep, ApprovalEchoStep, JobStep, ApprovalPollingStep, TestDeployStep }

\* the classes whose lifecycle methods the model follows statement by
\* statement; of the others it knows the values they may return
ExampleSteps == { TestDeployStep }

\* BaseStep.getMetadata throws unless a subclass or the decorator replaces it
getMetadataThrows(cls) == cls.metadataImpl = "base"

\* getMetadata as the @Step decorator defines it: name, stepType, the
\* descriptions and paramsJsonSchema.  Of the fields the registry reads
\* (type, schema, stepKind, requiresApproval) it sets none.
StepGetMetadata(cls) ==
    [type |-> None, stepType |-> Some(cls.type), schema |-> None,
     stepKind |-> None, requiresApproval |-> None]

\* getMetadata of a class written to the StepMetadata the registry reads:
\* kind and approval requirement are those of the class
ownGetMetadata(cls) ==
    [type |-> Some(cls.type), stepType |-> Some(cls.type),
     schema |-> Some(cls.schema), stepKind |-> Some(cls.kind),
     requiresApproval |-> Some(cls.overridesPrepare)]

\* instance.getMetadata() of a class that does not inherit BaseStep's
getMetadata(cls) ==
    IF cls.metadataImpl = "Step" THEN StepGetMetadata(cls) ELSE ownGetMetadata(cls)

\* the errors the model raises
Error(message) == [message |-> message]
GetMetadataError ==
    Error(<<"getMetadata not implemented. Did you forget to add the @Step decorator?">>)
ConstructorError == Error(<<"deployService is not available">>)
LifecycleError == Error(<<"lifecycle method failed">>)
SerializeError == Error(<<"Do not know how to serialize a BigInt">>)

\* variant of errorMessage: String(error) for every error
errorMessageString(error) == <<"Error: ">> \o error.message

\* error instanceof Error ? error.message : String(error)
errorMessage(error) == error.message

----------------------------------------------------------------------------
(* Process input: the --input payload *)

\* approvalContext values a payload may carry; ApprovalContextSchema accepts
\* only approved = true
ApprovalContexts ==
    { [approved |-> TRUE,  approverId |-> "u1"],
      [approved |-> FALSE, approverId |-> "u1"] }

\* pollingState values a payload may carry ({} is an object too)
PollingStates == { EmptyObject, [k \in {"pollCount"} |-> 0] }

Optional(S) == {None} \cup {Some(x) : x \in S}

\* the step types a payload names: those of the registered classes and one
\* that no class declares
RequestTypes(classes) ==
    {classes[i].type : i \in 1..Len(classes)} \cup {"no-such-step"}

\* a payload that JSON.parse accepts
JsonPayload(job, type, params, approvalContext, pollingState) ==
    [parseable |-> TRUE, job |-> job, type |-> type, params |-> params,
     approvalContext |-> approvalContext, pollingState |-> pollingState]

\* a payload on which JSON.parse throws (also a missing --input)
Garbage ==
    [parseable |-> FALSE, job |-> "", type |-> None, params |-> None,
     approvalContext |-> None, pollingState |-> None]

Inputs(classes) ==
    {Garbage, JsonPayload("SYNTHESIZE-METADATA", None, None, None, None),
     JsonPayload("INVALID", None, None, None, None)}
    \cup
    { JsonPayload("SYNTHESIZE-METADATA", Some(t), Some([k \in {"value"} |-> "a"]),
                  None, None) : t \in RequestTypes(classes) }
    \cup
    { JsonPayload("EXECUTE", t, p, a, s) :
        t \in Optional(RequestTypes(classes)), p \in Optional(ParamsObjects),
        a \in Optional(ApprovalContexts), s \in Optional(PollingStates) }

\* variant of InputIssues: approvalContext.approved may be any boolean
InputIssuesAnyApproved(json) ==
    IF json.job \notin {"EXECUTE", "SYNTHESIZE-METADATA"}
    THEN <<"Invalid input at job">>
    ELSE IF json.job = "SYNTHESIZE-METADATA" THEN <<>>
    ELSE (IF json.type = None THEN <<"Invalid input at type">> ELSE <<>>)
      \o (IF json.params = None THEN <<"Invalid input at params">> ELSE <<>>)

\* the issues StepRegistryInputSchema finds in a parsed JSON value
InputIssues(json) ==
    IF json.job \notin {"EXECUTE", "SYNTHESIZE-METADATA"}
    THEN <<"Invalid input at job">>
    ELSE IF json.job = "SYNTHESIZE-METADATA" THEN <<>>
    ELSE (IF json.type = None THEN <<"Invalid input at type">> ELSE <<>>)
      \o (IF json.params = None THEN <<"Invalid input at params">> ELSE <<>>)
      \o (IF IsDefined(json.approvalContext)
             /\ ValueOf(json.approvalContext).approved # TRUE
          THEN <<"Invalid input at approvalContext.approved">> ELSE <<>>)

\* variant of StepRegistryInputSchemaParse: a union that is not discriminated
\* by job, so a payload with type and params is taken as an EXECUTE
StepRegistryInputSchemaParseByShape(raw) ==
    IF ~raw.parseable
    THEN [success |-> FALSE, data |-> None,
          error |-> Error(<<"Unexpected token in JSON">>)]
    ELSE IF InputIssues(raw) # <<>>
    THEN [success |-> FALSE, data |-> None, error |-> Error(InputIssues(raw))]
    ELSE [success |-> TRUE,
          data |-> Some(IF ~IsDefined(raw.type) \/ ~IsDefined(raw.params)
                        THEN [job |-> raw.job, type |-> None, params |-> None,
                              approvalContext |-> None, pollingState |-> None]
                        ELSE [job |-> "EXECUTE", type |-> raw.type,
                              params |-> raw.params,
                              approvalContext |-> raw.approvalContext,
                              pollingState |-> raw.pollingState]),
          error |-> Error(<<>>)]

\* variant of StepRegistryInputSchemaParse: pollingState is parsed by an
\* object schema without keys, which strips every key of the value
StepRegistryInputSchemaParseStrips(raw) ==
    IF ~raw.parseable
    THEN [success |-> FALSE, data |-> None,
          error |-> Error(<<"Unexpected token in JSON">>)]
    ELSE IF InputIssues(raw) # <<>>
    THEN [success |-> FALSE, data |-> None, error |-> Error(InputIssues(raw))]
    ELSE [success |-> TRUE,
          data |-> Some(IF raw.job = "SYNTHESIZE-METADATA"
                        THEN [job |-> raw.job, type |-> None, params |-> None,
                              approvalContext |-> None, pollingState |-> None]
                        ELSE [job |-> raw.job, type |-> raw.type,
                              params |-> raw.params,
                              approvalContext |-> raw.approvalContext,
                              pollingState |->
                                  IF IsDefined(raw.pollingState)
                                  THEN Some(EmptyObject) ELSE None]),
          error |-> Error(<<>>)]

\* StepRegistryInputSchema.parse(JSON.parse(args["input"])): the value, or
\* the error thrown.  The SYNTHESIZE-METADATA variant keeps only job.
StepRegistryInputSchemaParse(raw) ==
    IF ~raw.parseable
    THEN [success |-> FALSE, data |-> None,
          error |-> Error(<<"Unexpected token in JSON">>)]
    ELSE IF InputIssues(raw) # <<>>
    THEN [success |-> FALSE, data |-> None, error |-> Error(InputIssues(raw))]
    ELSE [success |-> TRUE,
          data |-> Some(IF raw.job = "SYNTHESIZE-METADATA"
                        THEN [job |-> raw.job, type |-> None, params |-> None,
                              approvalContext |-> None, pollingState |-> None]
                        ELSE [job |-> raw.job, type |-> raw.type,
                              params |-> raw.params,
                              approvalContext |-> raw.approvalContext,
                              pollingState |-> raw.pollingState]),
          error |-> Error(<<>>)]

----------------------------------------------------------------------------
(* StepRegistry.steps: a Map, as a sequence of entries in insertion order *)

MapHas(map, key) == \E i \in 1..Len(map) : map[i].key = key

\* Map.get: the value stored under key, or undefined
MapGet(map, key) ==
    IF MapHas(map, key)
    THEN Some((CHOOSE e \in {map[i] : i \in 1..Len(map)} : e.key = key).value)
    ELSE None

\* Map.set: replaces the value of an existing key in place, else appends
MapSet(map, key, value) ==
    IF MapHas(map, key)
    THEN [i \in 1..Len(map) |->
            IF map[i].key = key THEN [key |-> key, value |-> value] ELSE map[i]]
    ELSE Append(map, [key |-> key, value |-> value])

\* the constructor's loop: this.steps.set(metadata.type, StepCls) per class
RECURSIVE RegisterAll(_, _)
RegisterAll(map, classes) ==
    IF classes = <<>> THEN map
    ELSE RegisterAll(MapSet(map, getMetadata(Head(classes)).type, Head(classes)),
                     Tail(classes))

----------------------------------------------------------------------------
(* Execution routing: StepRegistry.routeExecution and the two tables *)

\* the lifecycle call a routing function makes: the method and the approval
\* and pollingState arguments it passes (params is always passed)
Route(method, approval, pollingState) ==
    [method |-> method, approval |-> approval, pollingState |-> pollingState]

\* variant of routeSimpleStep: looks at approvalContext before requiresApproval
routeSimpleStepContextFirst(requiresApproval, approvalContext) ==
    IF ~IsDefined(approvalContext) THEN Route("prepare", None, None)
    ELSE IF ~Truthy(requiresApproval) THEN Route("run", None, None)
    ELSE Route("run", approvalContext, None)

\* variant of routeSimpleStep: passes the approvalContext on in every run
routeSimpleStepForwards(requiresApproval, approvalContext) ==
    IF ~Truthy(requiresApproval) THEN Route("run", approvalContext, None)
    ELSE IF ~IsDefined(approvalContext) THEN Route("prepare", None, None)
    ELSE Route("run", approvalContext, None)

\* variant of routeSimpleStep: the approved run drops the approval argument
routeSimpleStepDropsApproval(requiresApproval, approvalContext) ==
    IF ~Truthy(requiresApproval) THEN Route("run", None, None)
    ELSE IF ~IsDefined(approvalContext) THEN Route("prepare", None, None)
    ELSE Route("run", None, None)

\* routeSimpleStep; instance.execute(params, a) is this.run(params, a)
routeSimpleStep(requiresApproval, approvalContext) ==
    IF ~Truthy(requiresApproval) THEN Route("run", None, None)
    ELSE IF ~IsDefined(approvalContext) THEN Route("prepare", None, None)
    ELSE Route("run", approvalContext, None)

\* variant of routePollingStep: the approval checks come before pollingState
routePollingStepApprovalFirst(requiresApproval, approvalContext, pollingState) ==
    IF Truthy(requiresApproval) /\ ~IsDefined(approvalContext)
    THEN Route("prepare", None, None)
    ELSE IF IsDefined(pollingState) THEN Route("poll", None, pollingState)
    ELSE Route("trigger", approvalContext, None)

\* variant of routePollingStep: asks for approval whenever the request has
\* no approvalContext, whatever requiresApproval is
routePollingStepPrepareUngated(requiresApproval, approvalContext, pollingState) ==
    IF IsDefined(pollingState) THEN Route("poll", None, pollingState)
    ELSE IF ~IsDefined(approvalContext) THEN Route("prepare", None, None)
    ELSE IF ~Truthy(requiresApproval) THEN Route("trigger", None, None)
    ELSE Route("trigger", approvalContext, None)

\* variant of routePollingStep: triggers without asking for the approval
routePollingStepNoGate(requiresApproval, approvalContext, pollingState) ==
    IF IsDefined(pollingState) THEN Route("poll", None, pollingState)
    ELSE Route("trigger", approvalContext, None)

\* routePollingStep; executeTrigger is this.trigger, executePoll is this.poll
routePollingStep(requiresApproval, approvalContext, pollingState) ==
    IF IsDefined(pollingState) THEN Route("poll", None, pollingState)
    ELSE IF ~Truthy(requiresApproval) THEN Route("trigger", None, None)
    ELSE IF ~IsDefined(approvalContext) THEN Route("prepare", None, None)
    ELSE Route("trigger", approvalContext, None)

\* variant of routeExecution: the polling branch is missing
routeExecutionSimpleOnly(meta, approvalContext, pollingState) ==
    IF meta.stepKind = Some("simple")
    THEN routeSimpleStep(meta.requiresApproval, approvalContext)
    ELSE Route("none", None, None)

\* variant of routeExecution: the polling branch tests a misspelt kind
routeExecutionKindTypo(meta, approvalContext, pollingState) ==
    IF meta.stepKind = Some("simple")
    THEN routeSimpleStep(meta.requiresApproval, approvalContext)
    ELSE IF meta.stepKind = Some("poll")
    THEN routePollingStep(meta.requiresApproval, approvalContext, pollingState)
    ELSE Route("none", None, None)

\* variant of routeExecution: a request with pollingState goes to the
\* polling table whatever the kind of the step
routeExecutionPollFirst(meta, approvalContext, pollingState) ==
    IF IsDefined(pollingState) \/ meta.stepKind = Some("polling")
    THEN routePollingStep(meta.requiresApproval, approvalContext, pollingState)
    ELSE IF meta.stepKind = Some("simple")
    THEN routeSimpleStep(meta.requiresApproval, approvalContext)
    ELSE Route("none", None, None)

\* routeExecution; method "none" stands for the UNKNOWN_STEP_KIND return
routeExecution(meta, approvalContext, pollingState) ==
    IF meta.stepKind = Some("simple")
    THEN routeSimpleStep(meta.requiresApproval, approvalContext)
    ELSE IF meta.stepKind = Some("polling")
    THEN routePollingStep(meta.requiresApproval, approvalContext, pollingState)
    ELSE Route("none", None, None)

UnknownStepKind(meta) ==
    failed(<<"Unknown step kind: ",
             IF IsDefined(meta.stepKind) THEN ValueOf(meta.stepKind) ELSE "undefined">>,
           Some("UNKNOWN_STEP_KIND"))

----------------------------------------------------------------------------
(* What the lifecycle methods of the step classes return *)

\* BaseStep.prepare, the default
basePrepare ==
    failed(<<"prepare() called but not implemented">>, Some("PREPARE_NOT_IMPLEMENTED"))

StepFailed == failed(<<"Something went wrong">>, Some("STEP_ERROR"))

\* poll returns POLL_AGAIN below this pollCount, SUCCESS from it on
PollThreshold == 2

\* run echoes its params, with approvedBy when it received an approval
RunData(params, approval) ==
    IF IsDefined(approval)
    THEN [k \in DOMAIN params \cup {"approvedBy"} |->
            IF k = "approvedBy" THEN ValueOf(approval).approverId ELSE params[k]]
    ELSE params

\* a polling state that also records the handle of the job started, which
\* may be undefined (TPollingState extends Record<string, unknown>)
WithHandle(state, handle) ==
    [k \in DOMAIN state \cup {"handle"} |-> IF k = "handle" THEN handle ELSE state[k]]

\* trigger and poll of the example polling step, prepare as it inherits it
ExampleReturn(route, params) ==
    CASE route.method = "trigger" -> triggered([k \in {"pollCount"} |-> 0])
      [] route.method = "poll" ->
            LET state == ValueOf(route.pollingState) IN
            IF HasKey(state, "pollCount") /\ state["pollCount"] < PollThreshold
            THEN pollAgain([state EXCEPT !["pollCount"] = @ + 1], Some(1000))
            ELSE success(Some(params))
      [] OTHER -> basePrepare

\* the values a lifecycle method of cls may return for a routed call; the
\* declared return type is erased at run time, so a method may also return
\* a value that is no StepOutput
Returns(cls, route, params) ==
    CASE cls \in ExampleSteps -> {ExampleReturn(route, params)}
      [] route.method = "run" ->
            {success(Some(RunData(params, route.approval))), StepFailed,
             InvalidOutput,
             UnserializableOutput(RunData(params, route.approval))}
      [] route.method = "prepare" ->
            IF cls.overridesPrepare
            THEN {approvalRequired([context |-> "Approve?"]), StepFailed,
                  InvalidOutput}
            ELSE {basePrepare}
      [] route.method = "trigger" ->
            {triggered([k \in {"pollCount"} |-> 0]),
             triggered(WithHandle([k \in {"pollCount"} |-> 0], None)),
             StepFailed, InvalidOutput}
      [] route.method = "poll" ->
            LET state == ValueOf(route.pollingState) IN
            IF HasKey(state, "pollCount") /\ state["pollCount"] < PollThreshold
            THEN LET next == [state EXCEPT !["pollCount"] = @ + 1] IN
                 {pollAgain(next, Some(1000)),
                  pollAgain(WithHandle(next, None), Some(1000)),
                  StepFailed, InvalidOutput}
            ELSE {success(Some(params)), StepFailed, InvalidOutput}

\* the record of one lifecycle call
Call(cls, route, params) ==
    [method |-> route.method, step |-> cls.name, params |-> params,
     approval |-> route.approval, pollingState |-> route.pollingState]

\* the errors new StepCls() followed by instance.getMetadata() may raise
InstantiateErrors(cls) ==
    (IF cls.mayThrow THEN {ConstructorError} ELSE {})
    \cup (IF getMetadataThrows(cls) THEN {GetMetadataError} ELSE {})

\* new StepCls() followed by instance.getMetadata() may complete
CanInstantiate(cls) == ~getMetadataThrows(cls)

----------------------------------------------------------------------------
(* The process *)

StepLists == UNION {[1..n -> StepClasses] : n \in 0..MaxSteps}

\* what a previous invocation may have left in the output file
StaleFile == JSONstringify(success(None))

\* the process has not started, the host has observed nothing and the
\* library has not been used
NotStarted ==
    /\ pc = "run"
    /\ input = None
    /\ steps = <<>>
    /\ parsed = None
    /\ StepCls = None
    /\ metadata = None
    /\ loggerInjected = FALSE
    /\ logger = None
    /\ parseResult = None
    /\ calls = <<>>
    /\ output = None
    /\ thrown = None
    /\ caughtBy = "none"
    /\ writes = 0
    /\ executionId = None
    /\ outputPath = None
    /\ logDir = None
    /\ invocation = 1
    /\ history = <<>>
    /\ synthesized = None
    /\ observed = <<>>
    /\ firstRouted = None
    /\ built = None
    /\ validation = None
    /\ theInstance = None
    /\ theData = <<>>

Init ==
    /\ stepClasses \in StepLists
    /\ file \in {None, Some(StaleFile)}
    /\ NotStarted

\* writeOutput(output): the file is replaced by the serialized value
writeOutput(o) ==
    /\ file' = Some(JSONstringify(o))
    /\ writes' = writes + 1

\* a catch block: the error is recorded and converted to a FAILED output
catch(error, block, errorCode) ==
    /\ thrown' = Some(error)
    /\ caughtBy' = block
    /\ writeOutput(failed(errorMessage(error), Some(errorCode)))

\* the values of --execution-id (or of its default, exec-<Date.now()>)
ExecutionIds == {"exec-1", "exec-2"}

DEFAULT_OUTPUT_PATH == "/tmp/step-output.json"
DEFAULT_LOG_DIR == "/tmp/step-logs"

\* the command lines a host uses: the flags left out, and all three given
CommandLines ==
    { [output |-> DEFAULT_OUTPUT_PATH, logDir |-> DEFAULT_LOG_DIR,
       executionId |-> "exec-1"],
      [output |-> "/out/result.json", logDir |-> "/logs",
       executionId |-> "exec-2"] }

\* StepRegistry.run, lines 92-95, and the constructor's assignments
ParseArgs(args) ==
    /\ outputPath' = Some(args.output)
    /\ logDir' = Some(args.logDir)
    /\ executionId' = Some(args.executionId)

\* args["input"]: the payload the host passed, any payload when the host is
\* not modelled
ReadInput ==
    IF IsDefined(input) THEN input' = input
    ELSE \E raw \in Inputs(stepClasses) : input' = Some(raw)

\* StepRegistry.run, lines 91-97: the constructor registers every class
\* under metadata.type
RunConstructs ==
    /\ pc = "run"
    /\ \A i \in 1..Len(stepClasses) : CanInstantiate(stepClasses[i])
    /\ ReadInput
    /\ \E args \in CommandLines : ParseArgs(args)
    /\ steps' = RegisterAll(<<>>, stepClasses)
    /\ pc' = "execute"
    /\ UNCHANGED <<libVars, hostVars,
                   stepClasses, file, parsed, StepCls, metadata, loggerVars,
                   parseResult, calls, output, thrown, caughtBy, writes>>

\* StepRegistry.run: new StepCls() or getMetadata() throws inside the
\* constructor, which no try block encloses
RunThrows ==
    /\ pc = "run"
    /\ ReadInput
    /\ \E args \in CommandLines : ParseArgs(args)
    /\ \E i \in 1..Len(stepClasses) :
         /\ \A j \in 1..(i - 1) : CanInstantiate(stepClasses[j])
         /\ \E e \in InstantiateErrors(stepClasses[i]) : thrown' = Some(e)
    /\ pc' = "crashed"
    /\ UNCHANGED <<libVars, hostVars,
                   stepClasses, file, steps, parsed, StepCls, metadata,
                   loggerVars, parseResult, calls, output, caughtBy, writes>>

\* execute, lines 102-103 and 122-126: the payload does not parse
ExecuteRejectsInput ==
    /\ pc = "execute"
    /\ LET r == StepRegistryInputSchemaParse(ValueOf(input)) IN
         /\ ~r.success
         /\ catch(r.error, "execute", "REGISTRY_ERROR")
    /\ pc' = "done"
    /\ UNCHANGED <<libVars, hostVars, flagVars,
                   stepClasses, input, steps, parsed, StepCls, metadata,
                   loggerVars, parseResult, calls, output>>

\* variant of MetadataEntry: the entry also carries the execution id
MetadataEntryOfExecution(cls) ==
    [stepType |-> getMetadata(cls).stepType, executionId |-> executionId]

\* the metadata entry of one step as synthesizeMetadata collects it
MetadataEntry(cls) == [stepType |-> getMetadata(cls).stepType]

\* execute, lines 106-110, and synthesizeMetadata
ExecuteSynthesizes ==
    /\ pc = "execute"
    /\ LET r == StepRegistryInputSchemaParse(ValueOf(input)) IN
         /\ r.success
         /\ ValueOf(r.data).job = "SYNTHESIZE-METADATA"
         /\ parsed' = r.data
    /\ writeOutput(success(Some(
          [k \in {"metadata"} |->
              [i \in 1..Len(steps) |-> MetadataEntry(steps[i].value)]])))
    /\ pc' = "done"
    /\ UNCHANGED <<libVars, hostVars, flagVars,
                   stepClasses, input, steps, StepCls, metadata, loggerVars,
                   parseResult, calls, output, thrown, caughtBy>>

\* synthesizeMetadata: a constructor throws, execute's catch converts it
ExecuteSynthesizeThrows ==
    /\ pc = "execute"
    /\ LET r == StepRegistryInputSchemaParse(ValueOf(input)) IN
         /\ r.success
         /\ ValueOf(r.data).job = "SYNTHESIZE-METADATA"
         /\ parsed' = r.data
    /\ \E i \in 1..Len(steps) :
         \E e \in InstantiateErrors(steps[i].value) :
            catch(e, "execute", "REGISTRY_ERROR")
    /\ pc' = "done"
    /\ UNCHANGED <<libVars, hostVars, flagVars,
                   stepClasses, input, steps, StepCls, metadata, loggerVars,
                   parseResult, calls, output>>

\* execute, lines 112-119: the EXECUTE job enters executeStep
ExecuteCallsExecuteStep ==
    /\ pc = "execute"
    /\ LET r == StepRegistryInputSchemaParse(ValueOf(input)) IN
         /\ r.success
         /\ ValueOf(r.data).job = "EXECUTE"
         /\ parsed' = r.data
    /\ pc' = "executeStep"
    /\ UNCHANGED <<libVars, hostVars, flagVars,
                   stepClasses, file, input, steps, StepCls, metadata,
                   loggerVars, parseResult, calls, output, thrown, caughtBy,
                   writes>>

\* the request of the EXECUTE job being executed
Request == ValueOf(parsed)

\* variant of stepsGet: falls back to the first registered class
stepsGetOrFirst(map, type) ==
    IF MapHas(map, Some(type)) \/ map = <<>> THEN MapGet(map, Some(type))
    ELSE Some(map[1].value)

\* variant of stepsGet: an unknown type resolves to the class registered
\* last, so that its params are validated before the type is reported
stepsGetOrLast(map, type) ==
    IF MapHas(map, Some(type)) \/ map = <<>> THEN MapGet(map, Some(type))
    ELSE Some(map[Len(map)].value)

\* this.steps.get(type)
stepsGet(map, type) == MapGet(map, Some(type))

\* executeStep, lines 146-153: no class is stored under the type
ExecuteStepNotFound ==
    /\ pc = "executeStep"
    /\ stepsGet(steps, ValueOf(Request.type)) = None
    /\ writeOutput(failed(<<"No step registered with type: ", ValueOf(Request.type)>>,
                          Some("STEP_NOT_FOUND")))
    /\ pc' = "done"
    /\ UNCHANGED <<libVars, hostVars, flagVars,
                   stepClasses, input, steps, parsed, StepCls, metadata,
                   loggerVars, parseResult, calls, output, thrown, caughtBy>>

\* executeStep, line 146: the class stored under the type
ExecuteStepResolves ==
    /\ pc = "executeStep"
    /\ stepsGet(steps, ValueOf(Request.type)) # None
    /\ StepCls' = stepsGet(steps, ValueOf(Request.type))
    /\ pc' = "instantiate"
    /\ UNCHANGED <<libVars, hostVars, flagVars,
                   stepClasses, file, input, steps, parsed, metadata,
                   loggerVars, parseResult, calls, output, thrown, caughtBy,
                   writes>>

\* new NoOpLogger(), the logger a step instance holds until one is injected
NoOpLogger == [logDir |-> "/tmp", executionId |-> "noop", stepType |-> Some("noop")]

\* variant of StepLogger: the step instance keeps its default logger
StepLoggerNotInjected(meta) == NoOpLogger

\* new StepLogger({ logDir, executionId, stepType: metadata.type }), the
\* logger executeStep injects
StepLogger(meta) ==
    [logDir |-> ValueOf(logDir), executionId |-> ValueOf(executionId),
     stepType |-> meta.type]

\* variant of invalidParams: the validation error detail is left out
invalidParamsNoDetail(result) ==
    failed(<<"Invalid params">>, Some("INVALID_PARAMS"))

\* the output executeStep writes when the params fail the schema
invalidParams(result) ==
    failed(<<"Invalid params: ">> \o result.error, Some("INVALID_PARAMS"))

\* executeStep, lines 156-157 and 191-195: new StepCls() or getMetadata()
\* throws, or metadata.schema is undefined and safeParse cannot be called
ExecuteStepInstantiateThrows ==
    /\ pc = "instantiate"
    /\ LET cls == ValueOf(StepCls) IN
         \/ /\ \E e \in InstantiateErrors(cls) :
                 catch(e, "executeStep", "EXECUTION_ERROR")
            /\ UNCHANGED <<metadata, loggerVars>>
         \/ /\ CanInstantiate(cls)
            /\ ~IsDefined(getMetadata(cls).schema)
            /\ metadata' = Some(getMetadata(cls))
            /\ loggerInjected' = TRUE
            /\ logger' = Some(StepLogger(getMetadata(cls)))
            /\ catch(Error(<<"Cannot read properties of undefined (reading 'safeParse')">>),
                     "executeStep", "EXECUTION_ERROR")
    /\ pc' = "done"
    /\ UNCHANGED <<libVars, hostVars, flagVars,
                   stepClasses, input, steps, parsed, StepCls, parseResult,
                   calls, output>>

\* executeStep, lines 156-177: the params fail the step's schema
ExecuteStepInvalidParams ==
    /\ pc = "instantiate"
    /\ LET cls  == ValueOf(StepCls)
           meta == getMetadata(cls)
       IN /\ CanInstantiate(cls)
          /\ IsDefined(meta.schema)
          /\ metadata' = Some(meta)
          /\ loggerInjected' = TRUE
          /\ logger' = Some(StepLogger(getMetadata(cls)))
          /\ LET result == safeParse(ValueOf(meta.schema), ValueOf(Request.params)) IN
               /\ ~result.success
               /\ parseResult' = Some(result)
               /\ writeOutput(invalidParams(result))
    /\ pc' = "done"
    /\ UNCHANGED <<libVars, hostVars, flagVars,
                   stepClasses, input, steps, parsed, StepCls, calls, output,
                   thrown, caughtBy>>

\* executeStep, lines 156-179: the params pass the step's schema
ExecuteStepValidates ==
    /\ pc = "instantiate"
    /\ LET cls  == ValueOf(StepCls)
           meta == getMetadata(cls)
       IN /\ CanInstantiate(cls)
          /\ IsDefined(meta.schema)
          /\ metadata' = Some(meta)
          /\ loggerInjected' = TRUE
          /\ logger' = Some(StepLogger(getMetadata(cls)))
          /\ LET result == safeParse(ValueOf(meta.schema), ValueOf(Request.params)) IN
               /\ result.success
               /\ parseResult' = Some(result)
    /\ pc' = "route"
    /\ UNCHANGED <<libVars, hostVars, flagVars,
                   stepClasses, file, input, steps, parsed, StepCls, calls,
                   output, thrown, caughtBy, writes>>

\* variant of CurrentRoute: a registry that, for a request without
\* pollingState, resumes from the polling state left in the output file
CurrentRouteFromFile ==
    routeExecution(ValueOf(metadata), Request.approvalContext,
                   IF IsDefined(Request.pollingState) THEN Request.pollingState
                   ELSE IF IsDefined(file) /\ HasKey(ValueOf(file), "pollingState")
                   THEN Some(ValueOf(file).pollingState)
                   ELSE None)

\* the lifecycle call routeExecution makes for the current request
CurrentRoute ==
    routeExecution(ValueOf(metadata), Request.approvalContext, Request.pollingState)

\* variant of validatedParams: the params object of the request as it came
validatedParamsRaw == ValueOf(Request.params)

\* const validatedParams = parseResult.data
validatedParams == ValueOf(ValueOf(parseResult).data)

\* executeStep, lines 182-188: the routed lifecycle method returns (or
\* routeExecution returns UNKNOWN_STEP_KIND without calling one)
RouteExecutionReturns ==
    /\ pc = "route"
    /\ LET cls == ValueOf(StepCls) route == CurrentRoute IN
         IF route.method = "none"
         THEN /\ output' = Some(UnknownStepKind(ValueOf(metadata)))
              /\ calls' = calls
         ELSE /\ calls' = Append(calls, Call(cls, route, validatedParams))
              /\ \E value \in Returns(cls, route, validatedParams) :
                    output' = Some(value)
    /\ pc' = "write"
    /\ UNCHANGED <<libVars, hostVars, flagVars,
                   stepClasses, file, input, steps, parsed, StepCls, metadata,
                   loggerVars, parseResult, thrown, caughtBy, writes>>

\* executeStep, lines 182-195: the routed lifecycle method throws or rejects
RouteExecutionThrows ==
    /\ pc = "route"
    /\ LET cls == ValueOf(StepCls) route == CurrentRoute IN
         /\ route.method # "none"
         /\ cls \notin ExampleSteps
         /\ calls' = Append(calls, Call(cls, route, validatedParams))
    /\ catch(LifecycleError, "executeStep", "EXECUTION_ERROR")
    /\ pc' = "done"
    /\ UNCHANGED <<libVars, hostVars, flagVars,
                   stepClasses, input, steps, parsed, StepCls, metadata,
                   loggerVars, parseResult, output>>

\* executeStep, lines 190-195: JSON.stringify throws inside writeOutput,
\* before anything is written; the catch writes the FAILED conversion
ExecuteStepWriteThrows ==
    /\ pc = "write"
    /\ JSONstringifyThrows(ValueOf(output))
    /\ catch(SerializeError, "executeStep", "EXECUTION_ERROR")
    /\ pc' = "done"
    /\ UNCHANGED <<libVars, hostVars, flagVars,
                   stepClasses, input, steps, parsed, StepCls, metadata,
                   loggerVars, parseResult, calls, output>>

\* executeStep, line 190: this.writeOutput(output)
ExecuteStepWrites ==
    /\ pc = "write"
    /\ ~JSONstringifyThrows(ValueOf(output))
    /\ writeOutput(ValueOf(output))
    /\ pc' = "done"
    /\ UNCHANGED <<libVars, hostVars, flagVars,
                   stepClasses, input, steps, parsed, StepCls, metadata,
                   loggerVars, parseResult, calls, output, thrown, caughtBy>>

Next ==
    \/ RunConstructs
    \/ RunThrows
    \/ ExecuteRejectsInput
    \/ ExecuteSynthesizes
    \/ ExecuteSynthesizeThrows
    \/ ExecuteCallsExecuteStep
    \/ ExecuteStepNotFound
    \/ ExecuteStepResolves
    \/ ExecuteStepInstantiateThrows
    \/ ExecuteStepInvalidParams
    \/ ExecuteStepValidates
    \/ RouteExecutionReturns
    \/ RouteExecutionThrows
    \/ ExecuteStepWriteThrows
    \/ ExecuteStepWrites

Spec == Init /\ [][Next]_vars

TypeOK == pc \in {"run", "crashed", "execute", "executeStep", "instantiate",
                  "route", "write", "done", "library"}

----------------------------------------------------------------------------
(* The host: one process invocation after another over the same steps *)

MaxInvocations == 3   \* invocations the host makes

\* the entrypoints the host may invoke: StepRegistry.run(steps) with a
\* Polling step and a step whose constructor may throw, with a decorated
\* step first, with an undecorated step
HostStepLists ==
    { <<PollingTestStep, DeployStep>>, <<EchoStep, PollingTestStep>>,
      <<UnDecoratedStep>> }

\* the job of the invocation that has ended
EndedJob ==
    IF pc = "crashed" THEN "crashed"
    ELSE IF IsDefined(parsed) THEN ValueOf(parsed).job
    ELSE "rejected"

\* the invocation that has ended was a SYNTHESIZE-METADATA that raised no
\* error
SynthesizeEnded ==
    pc = "done" /\ EndedJob = "SYNTHESIZE-METADATA" /\ ~IsDefined(thrown)

InitHost ==
    /\ stepClasses \in HostStepLists
    /\ file = None
    /\ NotStarted

\* the process has exited; the host reads the output file and starts the
\* entrypoint again: a new process, a new StepRegistry, the same file
NextInvocation ==
    /\ pc \in {"done", "crashed"}
    /\ invocation < MaxInvocations
    /\ invocation' = invocation + 1
    /\ history' = Append(history, EndedJob)
    /\ synthesized' = IF SynthesizeEnded /\ ~IsDefined(synthesized)
                      THEN file ELSE synthesized
    /\ pc' = "run"
    /\ input' = None
    /\ executionId' = None
    /\ outputPath' = None
    /\ logDir' = None
    /\ steps' = <<>>
    /\ parsed' = None
    /\ StepCls' = None
    /\ metadata' = None
    /\ loggerInjected' = FALSE
    /\ logger' = None
    /\ parseResult' = None
    /\ calls' = <<>>
    /\ output' = None
    /\ thrown' = None
    /\ caughtBy' = "none"
    /\ writes' = 0
    /\ UNCHANGED <<libVars, stepClasses, file, observed, firstRouted>>

NextHost ==
    \/ Next
    \/ NextInvocation

SpecHost == InitHost /\ [][NextHost]_vars

----------------------------------------------------------------------------
(* The host that follows the protocol: it passes a returned polling state  *)
(* back, and it sends a request again                                      *)

MaxCalls == 5         \* invocations the host of the protocol makes

\* the entrypoints this host invokes: the example polling step, and a
\* Polling step beside a step whose constructor may throw
ProtocolStepLists ==
    { <<TestDeployStep>>, <<PollingTestStep, DeployStep>> }

InitProtocol ==
    /\ stepClasses \in ProtocolStepLists
    /\ file = None
    /\ NotStarted

\* the first request that was routed, with the call it led to, once the
\* invocation that has ended is taken into account
Remembered ==
    IF ~IsDefined(firstRouted) /\ pc = "done" /\ calls # <<>>
    THEN Some([payload |-> ValueOf(input), calls |-> calls,
               executionId |-> executionId, outputPath |-> outputPath,
               logDir |-> logDir])
    ELSE firstRouted

\* the host starts the entrypoint again with the payload it chose: a new
\* process, a new StepRegistry
Restart(payload) ==
    /\ invocation < MaxCalls
    /\ invocation' = invocation + 1
    /\ firstRouted' = Remembered
    /\ pc' = "run"
    /\ input' = Some(payload)
    /\ executionId' = None
    /\ outputPath' = None
    /\ logDir' = None
    /\ steps' = <<>>
    /\ parsed' = None
    /\ StepCls' = None
    /\ metadata' = None
    /\ loggerInjected' = FALSE
    /\ logger' = None
    /\ parseResult' = None
    /\ calls' = <<>>
    /\ output' = None
    /\ thrown' = None
    /\ caughtBy' = "none"
    /\ writes' = 0
    /\ UNCHANGED <<libVars, stepClasses, file, history, synthesized>>

\* the file holds a polling state for the host to pass back
HoldsPollingState ==
    /\ IsDefined(file)
    /\ ValueOf(file).status \in {"TRIGGERED", "POLL_AGAIN"}

\* the host read TRIGGERED or POLL_AGAIN: it sends the request again with
\* the pollingState it read, verbatim
HostPassesBack ==
    /\ pc = "done"
    /\ HoldsPollingState
    /\ observed' = Append(observed, ValueOf(file).status)
    /\ Restart([ValueOf(input) EXCEPT
                    !.pollingState = Some(ValueOf(file).pollingState)])

\* the host sends the first request that was routed once more
HostRepeats ==
    /\ pc \in {"done", "crashed"}
    /\ IsDefined(Remembered)
    /\ observed' = <<>>
    /\ Restart(ValueOf(Remembered).payload)

NextProtocol ==
    \/ Next
    \/ HostPassesBack
    \/ HostRepeats

SpecProtocol == InitProtocol /\ [][NextProtocol]_vars

----------------------------------------------------------------------------
(* The SDK used as a library: output helpers, StepOutputSchema, getData *)

\* objects passed as data, approvalRequest or pollingState
Records == { EmptyObject, [k \in {"key"} |-> "value"] }

\* arguments of approvalRequired: { context?: string }, and the undeclared
\* key the tests pass
ApprovalRequests ==
    { EmptyObject, [k \in {"context"} |-> "approve"],
      [k \in {"message"} |-> "approve"] }

\* arguments for the type parameter TPollingState of triggered and
\* pollAgain, which no constraint bounds: objects, and a string
PollingStateArguments == PollingStates \cup Records \cup {JsString("abc")}

\* the outputs the five helpers of StepOutputs build, with the helper's name
HelperCalls ==
    {[by |-> "success", value |-> success(d)] : d \in Optional(Records)}
    \cup {[by |-> "failed", value |-> failed(<<"error">>, c)] :
              c \in Optional({"NOT_FOUND"})}
    \cup {[by |-> "approvalRequired", value |-> approvalRequired(r)] :
              r \in ApprovalRequests}
    \cup {[by |-> "triggered", value |-> triggered(s)] :
              s \in PollingStateArguments}
    \cup {[by |-> "pollAgain", value |-> pollAgain(s, ms)] :
              s \in PollingStateArguments, ms \in Optional({5000})}

\* status tags that are none of the protocol's, as a caller may write them
UnknownStatuses == {"INVALID", "DONE", "success"}

\* object literals written without the helpers
Literals ==
    {[by |-> "literal", value |-> InvalidOutput]}
    \cup {[by |-> "literal", value |-> [status |-> t]] : t \in UnknownStatuses}
    \cup {[by |-> "literal", value |-> [status |-> t, error |-> <<"error">>]] :
              t \in UnknownStatuses}
    \cup {[by |-> "literal", value |-> [status |-> t, pollingState |-> r]] :
              t \in UnknownStatuses \cup {"TRIGGERED"}, r \in Records}
    \cup {[by |-> "literal", value |-> [status |-> "TRIGGERED"]],
          [by |-> "literal", value |-> [error |-> <<"error">>]]}

\* StepOutputs.<helper>(...) or an object literal
BuildOutput ==
    /\ pc = "library"
    /\ \E b \in HelperCalls \cup Literals : built' = Some(b)
    /\ validation' = None
    /\ UNCHANGED <<runVars, hostVars, theInstance, theData>>

\* StepOutputSchema.safeParse(output).success
ValidateOutput ==
    /\ pc = "library"
    /\ IsDefined(built)
    /\ validation' = Some(StepOutputSchemaAccepts(ValueOf(built).value))
    /\ UNCHANGED <<runVars, hostVars, built, theInstance, theData>>

\* the methods a class of the catalogue defines itself
ownMethods(cls) ==
    (IF cls.kind = "simple" THEN {"run"} ELSE {"trigger", "poll"})
    \cup (IF cls.overridesPrepare THEN {"prepare"} ELSE {})

\* the methods on the prototypes of the base classes (abstract methods are
\* declarations only)
BaseStepMethods == {"_setLogger", "getMetadata", "getData", "prepare"}
inheritedMethods(kind) ==
    BaseStepMethods
    \cup (IF kind = "simple" THEN {"execute"} ELSE {"executeTrigger", "executePoll"})

\* further methods a step class may define besides those of its contract
ExtraMethods == SUBSET {"trigger", "poll"}

\* new Cls(): the class and the methods it defines itself
NewInstance(cls, extra) == [cls |-> cls, own |-> ownMethods(cls) \cup extra]

\* name in this
In(name, inst) == name \in inst.own \cup inheritedMethods(inst.cls.kind)

\* the prototype that this.<name> resolves to
Resolve(inst, name) == IF name \in inst.own THEN inst.cls.name ELSE "BaseStep"

\* variant of getData: requiresApproval tests that a prepare method exists
getDataPrepareExists(inst) ==
    LET hasPollingMethods == In("trigger", inst) /\ In("poll", inst)
    IN [stepType |-> inst.cls.type, schema |-> inst.cls.schema,
        stepKind |-> IF hasPollingMethods THEN "polling" ELSE "simple",
        requiresApproval |-> In("prepare", inst)]

\* getData as the @Step decorator defines it
getData(inst) ==
    LET hasPollingMethods == In("trigger", inst) /\ In("poll", inst)
        requiresApproval  == Resolve(inst, "prepare") # "BaseStep"
    IN [stepType |-> inst.cls.type, schema |-> inst.cls.schema,
        stepKind |-> IF hasPollingMethods THEN "polling" ELSE "simple",
        requiresApproval |-> requiresApproval]

\* times getData is queried on one instance
MaxQueries == 2

\* const step = new Cls() of a decorated class
NewStep ==
    /\ pc = "library"
    /\ \E cls \in DecoratedClasses, extra \in ExtraMethods :
          theInstance' = Some(NewInstance(cls, extra))
    /\ theData' = <<>>
    /\ UNCHANGED <<runVars, hostVars, built, validation>>

\* step.getData()
GetData ==
    /\ pc = "library"
    /\ IsDefined(theInstance)
    /\ Len(theData) < MaxQueries
    /\ theData' = Append(theData, getData(ValueOf(theInstance)))
    /\ UNCHANGED <<runVars, hostVars, built, validation, theInstance>>

InitLibrary ==
    /\ stepClasses = <<>>
    /\ file = None
    /\ pc = "library"
    /\ input = None
    /\ steps = <<>>
    /\ parsed = None
    /\ StepCls = None
    /\ metadata = None
    /\ loggerInjected = FALSE
    /\ logger = None
    /\ parseResult = None
    /\ calls = <<>>
    /\ output = None
    /\ thrown = None
    /\ caughtBy = "none"
    /\ writes = 0
    /\ executionId = None
    /\ outputPath = None
    /\ logDir = None
    /\ invocation = 1
    /\ history = <<>>
    /\ synthesized = None
    /\ observed = <<>>
    /\ firstRouted = None
    /\ built = None
    /\ validation = None
    /\ theInstance = None
    /\ theData = <<>>

NextLibrary ==
    \/ BuildOutput
    \/ ValidateOutput
    \/ NewStep
    \/ GetData

SpecLibrary == InitLibrary /\ [][NextLibrary]_vars

----------------------------------------------------------------------------
(* Vocabulary of the properties *)

\* the payload as the host sent it
Payload == ValueOf(input)

\* the invocation has written its output and ended
Done == pc = "done"

\* the request's type resolved to a registered class, its params passed the
\* class's schema and the routed call has been made
Routed ==
    /\ pc \in {"write", "done"}
    /\ IsDefined(StepCls)
    /\ IsDefined(parseResult)
    /\ ValueOf(parseResult).success

TheStep == ValueOf(StepCls)
IsSimple  == TheStep.kind = "simple"
IsPolling == TheStep.kind = "polling"
RequiresApproval == TheStep.overridesPrepare

Invoked(method) == \E i \in 1..Len(calls) : calls[i].method = method

\* exactly one lifecycle call was made: method, with params the validated
\* params and the given approval and pollingState arguments
InvokedOnly(method, approval, pollingState) ==
    calls = << [method |-> method, step |-> TheStep.name,
                params |-> validatedParams, approval |-> approval,
                pollingState |-> pollingState] >>

\* the output file holds a FAILED output with the given errorCode
WrittenFailed(errorCode) ==
    /\ IsDefined(file)
    /\ ValueOf(file).status = "FAILED"
    /\ HasKey(ValueOf(file), "errorCode")
    /\ ValueOf(file).errorCode = Some(errorCode)

\* sequence part occurs in sequence whole as a contiguous run
Contains(whole, part) ==
    \E k \in 0..(Len(whole) - Len(part)) :
        \A i \in 1..Len(part) : whole[k + i] = part[i]

----------------------------------------------------------------------------
(* C1 *)

----------------------------------------------------------------------------
(* C2 *)

----------------------------------------------------------------------------
(* C3 *)

----------------------------------------------------------------------------
(* C4 *)

----------------------------------------------------------------------------
(* C5 *)

----------------------------------------------------------------------------
(* C6 *)

----------------------------------------------------------------------------
(* C7 *)

\* the types the registered step classes declare
DeclaredTypes == {stepClasses[i].type : i \in 1..Len(stepClasses)}

\* the payload is a well-formed EXECUTE request
IsExecuteRequest == IsDefined(parsed) /\ Request.job = "EXECUTE"

\* C7: when an EXECUTE request names a type that no registered step
\* declares, the output written is FAILED with errorCode STEP_NOT_FOUND and
\* no lifecycle method is invoked.
C7_StepNotFound ==
    (Done /\ IsExecuteRequest /\ ValueOf(Request.type) \notin DeclaredTypes)
        => /\ WrittenFailed("STEP_NOT_FOUND")
           /\ calls = <<>>

\* STEP_NOT_FOUND written while steps are registered
C7_Witness ==
    /\ Done /\ IsExecuteRequest
    /\ steps # <<>>
    /\ ValueOf(Request.type) \notin DeclaredTypes
    /\ WrittenFailed("STEP_NOT_FOUND")

----------------------------------------------------------------------------
(* C8 *)

\* the params of the request fail the declared schema of the resolved class
ParamsFailSchema ==
    ~safeParse(TheStep.schema, ValueOf(Payload.params)).success

----------------------------------------------------------------------------
(* C9 *)

----------------------------------------------------------------------------
(* C10 *)

\* the payload is not parseable JSON or does not match the job union
Malformed(raw) ==
    \/ ~raw.parseable
    \/ raw.job \notin {"EXECUTE", "SYNTHESIZE-METADATA"}
    \/ /\ raw.job = "EXECUTE"
       /\ \/ ~IsDefined(raw.type)
          \/ ~IsDefined(raw.params)
          \/ /\ IsDefined(raw.approvalContext)
             /\ ~ValueOf(raw.approvalContext).approved

\* C10: when the payload is not parseable JSON or does not match the job
\* union (unknown job, EXECUTE without type or params, approvalContext whose
\* approved is not true), the output written is FAILED with errorCode
\* REGISTRY_ERROR and no lifecycle method is invoked.
C10_RegistryError ==
    (Done /\ Malformed(Payload))
        => /\ WrittenFailed("REGISTRY_ERROR")
           /\ calls = <<>>

\* REGISTRY_ERROR written for an approvalContext with approved = false
C10_Witness ==
    /\ Done
    /\ Payload.parseable
    /\ Payload.job = "EXECUTE"
    /\ IsDefined(Payload.type) /\ IsDefined(Payload.params)
    /\ IsDefined(Payload.approvalContext)
    /\ ~ValueOf(Payload.approvalContext).approved
    /\ WrittenFailed("REGISTRY_ERROR")

----------------------------------------------------------------------------
(* C11 *)

\* C11: every invocation of StepRegistry.run completes without an uncaught
\* exception and with an output written to the output file: every error
\* raised, also one raised while the registry is constructed from the
\* registered steps, is caught, and a process that can take no further step
\* has ended after writing an output.
C11_RunCompletes ==
    /\ IsDefined(thrown) => caughtBy # "none"
    /\ (Done /\ writes >= 1 /\ IsDefined(file))
       \/ ENABLED Next

----------------------------------------------------------------------------
(* C12 *)

----------------------------------------------------------------------------
(* C13 *)

\* the process has ended, by returning or by an uncaught error
Ended == pc \in {"done", "crashed"}

\* C13: each invocation writes the output file exactly once.  It never
\* writes twice, and when it has ended it has written once: the file holds
\* the serialized return value of the routed call, the metadata result, or
\* the FAILED conversion of the error caught, and nothing of the previous
\* content.
C13_WritesOnce ==
    /\ writes <= 1
    /\ Ended =>
          /\ writes = 1
          /\ IsDefined(file)
          /\ (IsDefined(output) /\ ~IsDefined(thrown))
                => file = Some(JSONstringify(ValueOf(output)))
          /\ IsDefined(thrown) =>
                /\ ValueOf(file).status = "FAILED"
                /\ ValueOf(file).error = ValueOf(thrown).message

----------------------------------------------------------------------------
(* C14 *)

----------------------------------------------------------------------------
(* C15 *)

\* the status tags of the output protocol
Statuses == {"SUCCESS", "FAILED", "APPROVAL_REQUIRED", "TRIGGERED", "POLL_AGAIN"}

\* C15: round trip of the output protocol.  Whatever the arguments, a value
\* built by one of the helpers success, failed, approvalRequired, triggered,
\* pollAgain validates against StepOutputSchema, and a value whose status
\* tag is none of the five fails the validation.
C15_RoundTrip ==
    IsDefined(validation) =>
        LET b == ValueOf(built) IN
        /\ b.by # "literal" => ValueOf(validation) = TRUE
        /\ (b.by = "literal"
              /\ (~HasKey(b.value, "status") \/ b.value.status \notin Statuses))
             => ValueOf(validation) = FALSE

----------------------------------------------------------------------------
(* C16 *)

\* the payload is a well-formed SYNTHESIZE-METADATA request
IsSynthesizeRequest ==
    IsDefined(input) /\ Payload.parseable /\ Payload.job = "SYNTHESIZE-METADATA"

\* the registered classes declare pairwise distinct types
DistinctTypes ==
    \A i, j \in 1..Len(stepClasses) :
        stepClasses[i].type = stepClasses[j].type => i = j

\* the metadata list of a SUCCESS output written by SYNTHESIZE-METADATA
MetadataList(content) == ValueOf(content.data)["metadata"]

\* C16: SYNTHESIZE-METADATA over steps of pairwise distinct types, when no
\* step raises an error, writes a SUCCESS output whose data.metadata list
\* has exactly one entry per registered step: as many entries as steps, and
\* for every registered step an entry carrying that step's stepType.
C16_MetadataPerStep ==
    (Done /\ IsSynthesizeRequest /\ DistinctTypes /\ ~IsDefined(thrown))
        => /\ IsDefined(file)
           /\ ValueOf(file).status = "SUCCESS"
           /\ LET list == MetadataList(ValueOf(file)) IN
                /\ Len(list) = Len(stepClasses)
                /\ \A i \in 1..Len(stepClasses) :
                      \E j \in 1..Len(list) :
                          list[j].stepType = Some(stepClasses[i].type)

----------------------------------------------------------------------------
(* C17 *)

----------------------------------------------------------------------------
(* C18 *)

\* C18: SYNTHESIZE-METADATA validates no params and invokes no lifecycle
\* method of any registered step, also when the payload carries a type and
\* params: no class is resolved, no logger is injected, no routed call is
\* made, and the only effect is the one write of the output.
C18_SynthesizeFrame ==
    IsSynthesizeRequest =>
        /\ calls = <<>>
        /\ parseResult = None
        /\ StepCls = None
        /\ metadata = None
        /\ ~loggerInjected
        /\ output = None
        /\ writes <= 1
        /\ Done => writes = 1

\* SYNTHESIZE-METADATA over two registered steps has written its output for
\* a payload that also carries a registered type and params
C18_Witness ==
    /\ Done /\ IsSynthesizeRequest
    /\ IsDefined(Payload.type) /\ ValueOf(Payload.type) \in DeclaredTypes
    /\ IsDefined(Payload.params)
    /\ Len(steps) = 2
    /\ ValueOf(file).status = "SUCCESS"
    /\ writes = 1

----------------------------------------------------------------------------
(* C19 *)

\* the step instance that was queried
Queried == ValueOf(theInstance)

----------------------------------------------------------------------------
(* C20 *)

\* the registered decorated classes that declare the requested type
RequestedDecorated ==
    { c \in DecoratedClasses :
        \E i \in 1..Len(stepClasses) :
            stepClasses[i] = c /\ c.type = ValueOf(Request.type) }

\* the lifecycle methods routing may invoke on a step of the given kind
MethodsOfKind(kind) ==
    IF kind = "polling" THEN {"prepare", "trigger", "poll"} ELSE {"prepare", "run"}

\* C20: the stepKind of a decorated step is polling exactly when the step
\* exposes both trigger and poll, simple otherwise, and it is the kind the
\* registry routes by: an EXECUTE that names the type of a registered
\* decorated step, with params that pass its schema and no error raised,
\* is routed with the stepKind getData reports, to a method of that kind.
C20_KindUsedByRouting ==
    (Done /\ IsExecuteRequest /\ DistinctTypes /\ ~IsDefined(thrown))
        => \A c \in RequestedDecorated :
              LET kind == getData(NewInstance(c, {})).stepKind IN
              /\ kind = "polling" <=> {"trigger", "poll"} \subseteq ownMethods(c)
              /\ safeParse(c.schema, ValueOf(Request.params)).success
                    => /\ IsDefined(metadata)
                       /\ ValueOf(metadata).stepKind = Some(kind)
                       /\ Len(calls) = 1
                       /\ calls[1].method \in MethodsOfKind(kind)

----------------------------------------------------------------------------
(* C21 *)

\* the routed call returned a TRIGGERED or POLL_AGAIN output and the process
\* has written it
WrittenPollingState ==
    /\ Done /\ IsDefined(output)
    /\ ValueOf(output).status \in {"TRIGGERED", "POLL_AGAIN"}

\* the polling state the routed call returned, and the one in the file
ReturnedState == ValueOf(output).pollingState
WrittenState  == ValueOf(file).pollingState

----------------------------------------------------------------------------
(* C22 *)

\* the current invocation was sent the payload of the first routed one
SameRequest ==
    /\ IsDefined(firstRouted)
    /\ IsDefined(input)
    /\ Payload = ValueOf(firstRouted).payload

----------------------------------------------------------------------------
(* C23 *)

\* the host started a polling sequence of the example polling step: its
\* first request named the step's type with params that pass the step's
\* schema and carried no pollingState; the current invocation is that
\* request or one that passes a polling state back
ExampleRequested ==
    /\ IsExecuteRequest
    /\ DistinctTypes
    /\ \E i \in 1..Len(stepClasses) : stepClasses[i] = TestDeployStep
    /\ Request.type = Some(TestDeployStep.type)
    /\ safeParse(TestDeployStep.schema, ValueOf(Request.params)).success
    /\ IF observed = <<>> THEN ~IsDefined(Request.pollingState)
       ELSE observed[1] = "TRIGGERED"

\* the status the host is to read at the i-th invocation of the sequence
ExpectedStatus(i) ==
    IF i = 1 THEN "TRIGGERED"
    ELSE IF i <= PollThreshold + 1 THEN "POLL_AGAIN"
    ELSE "SUCCESS"

\* C23: polling lifecycle of the example polling step.  A host that first
\* calls EXECUTE with no pollingState and then passes each returned
\* pollingState back verbatim reads TRIGGERED, then POLL_AGAIN exactly
\* threshold times (with pollCount one higher each time and retryAfterMs
\* 1000), then SUCCESS: the sequence ends after threshold + 2 invocations
\* and never reads TRIGGERED again once pollingState is supplied.
C23_PollingLifecycle ==
    (Done /\ ExampleRequested) =>
        LET seen == Append(observed, ValueOf(file).status) IN
        /\ Len(seen) <= PollThreshold + 2
        /\ \A i \in 1..Len(seen) : seen[i] = ExpectedStatus(i)
        /\ ValueOf(file).status = "POLL_AGAIN" =>
              /\ ValueOf(file).pollingState["pollCount"] = Len(observed)
              /\ ValueOf(file).retryAfterMs = Some(1000)

----------------------------------------------------------------------------
(* C24 *)

\* the error codes of the registry
Taxonomy == {"REGISTRY_ERROR", "STEP_NOT_FOUND", "INVALID_PARAMS", "EXECUTION_ERROR"}

\* the file holds a FAILED output that is not the return value of a
\* lifecycle method: the registry built it
RegistryOriginated ==
    /\ Done
    /\ IsDefined(file)
    /\ ValueOf(file).status = "FAILED"
    /\ IsDefined(thrown) \/ ~(IsDefined(output) /\ calls # <<>>)

\* C24: every FAILED output that the registry itself originates carries an
\* errorCode of the closed taxonomy REGISTRY_ERROR, STEP_NOT_FOUND,
\* INVALID_PARAMS, EXECUTION_ERROR, whatever the registered steps,
\* decorated ones among them, and whatever the request.
C24_ClosedTaxonomy ==
    RegistryOriginated =>
        /\ HasKey(ValueOf(file), "errorCode")
        /\ \E code \in Taxonomy : ValueOf(file).errorCode = Some(code)

\* a decorated step is registered and the routed lifecycle method of a
\* Polling step threw: the registry wrote EXECUTION_ERROR
C24_Witness ==
    /\ RegistryOriginated
    /\ \E i \in 1..Len(stepClasses) : stepClasses[i] \in DecoratedClasses
    /\ Routed /\ IsPolling
    /\ IsDefined(thrown)
    /\ WrittenFailed("EXECUTION_ERROR")

----------------------------------------------------------------------------
(* C25 *)

\* the registry has been constructed
Constructed == pc \notin {"run", "crashed"}

\* C25: after registry construction each step type identifier maps to
\* exactly one step implementation, and every registered step (the steps
\* declaring pairwise distinct types) is resolvable under its own declared
\* type: the lookup of that type finds that step and no other, so an
\* EXECUTE naming it does not end in STEP_NOT_FOUND.
C25_TypeResolvable ==
    Constructed =>
        /\ \A i, j \in 1..Len(steps) : steps[i].key = steps[j].key => i = j
        /\ DistinctTypes =>
              \A i \in 1..Len(stepClasses) :
                  stepsGet(steps, stepClasses[i].type) = Some(stepClasses[i])
        /\ (Done /\ IsExecuteRequest /\ DistinctTypes
                 /\ ValueOf(Request.type) \in DeclaredTypes)
              => ~WrittenFailed("STEP_NOT_FOUND")

----------------------------------------------------------------------------
(* C26 *)

\* the params of the request fail the schema the registered steps declare
ParamsInvalid == ~safeParse(TestSchema, ValueOf(Request.params)).success

\* C26: the checks of an EXECUTE happen in the order input parse, type
\* resolution, params validation, routing, and the first failing check
\* decides the error code.  No class is looked up before the payload has
\* parsed, no params are validated before a class is resolved and no
\* lifecycle call is made before the params have passed; a malformed
\* payload yields REGISTRY_ERROR with no type lookup, and a request whose
\* type is unregistered and whose params would also be invalid yields
\* STEP_NOT_FOUND, never INVALID_PARAMS, with no params validated.
C26_CheckOrder ==
    /\ IsDefined(StepCls) => IsDefined(parsed)
    /\ IsDefined(parseResult) => IsDefined(StepCls)
    /\ calls # <<>> => (IsDefined(parseResult) /\ ValueOf(parseResult).success)
    /\ (Done /\ Malformed(Payload))
          => /\ WrittenFailed("REGISTRY_ERROR")
             /\ parsed = None /\ StepCls = None /\ parseResult = None
    /\ (Done /\ IsExecuteRequest /\ ValueOf(Request.type) \notin DeclaredTypes
             /\ ParamsInvalid)
          => /\ WrittenFailed("STEP_NOT_FOUND")
             /\ ~WrittenFailed("INVALID_PARAMS")
             /\ StepCls = None /\ parseResult = None

\* STEP_NOT_FOUND written for an unregistered type with params that lack
\* the required key, while steps are registered
C26_Witness ==
    /\ Done /\ IsExecuteRequest
    /\ steps # <<>>
    /\ ValueOf(Request.type) \notin DeclaredTypes
    /\ ParamsInvalid
    /\ WrittenFailed("STEP_NOT_FOUND")
    /\ parseResult = None

----------------------------------------------------------------------------
(* C27 *)

----------------------------------------------------------------------------
(* C28 *)

----------------------------------------------------------------------------
(* C29 *)

\* the keys the declared schema of the resolved class has
SchemaKeys == {TheStep.schema[i] : i \in 1..Len(TheStep.schema)}

----------------------------------------------------------------------------
(* C30 *)

====
